---- MODULE Spec2Model ----
(***************************************************************************)
(* State-machine model of the LSM tree of src/src/lsm_tree.cpp: the write  *)
(* path (put, del, merge_down), the read path (get, range) with its pool   *)
(* of search workers, and the collaborators the tree consumes (Buffer,     *)
(* Run, Level, MergeContext, WorkerPool), whose code is outside            *)
(* lsm_tree.cpp and is modelled from their documented interface.           *)
(***************************************************************************)
EXTENDS Integers, Sequences, FiniteSets, TLC

(* ------------------------------ bounds --------------------------------- *)

\* keys are 1..MaxKey (and 1..MaxKey + 1 in the single-threaded configurations)
MaxKey == 2
\* live values are 1..MaxVal
MaxVal == 1
\* buffer_max_entries ranges over 1..MaxBuf
MaxBuf == 1
\* depth ranges over 1..MaxDepth
MaxDepth == 3
\* fanout ranges over 1..MaxFanout
MaxFanout == 2
\* merge_ratio ranges over n/RatioDen, n in 1..RatioDen
RatioDen == 2
\* num_threads ranges over 1..MaxThreads
MaxThreads == 2
\* at most MaxFlush buffer flushes are explored (one more in the
\* single-threaded configurations)
MaxFlush == 4

Vals == 1..MaxVal

\* the reserved sentinel value that marks a deletion
VAL_TOMBSTONE == 0

(* ------------------------------ state ---------------------------------- *)

VARIABLES
    buffer,       \* LSMTree::buffer : [max_size, entries (sorted by key)]
    levels,       \* LSMTree::levels : sequence of [max_runs, max_run_size, runs]
    merge_ratio,  \* LSMTree::merge_ratio, the fraction num/den
    num_threads,  \* size of LSMTree::worker_pool
    max_key,      \* the client writes and reads the keys 1..max_key
    err,          \* "none", or how the process died: "TreeFull", "AssertFail"
    pc,           \* where the caller is: "idle", "get" or "range" (in wait_all)
    key_arg,      \* get: key; range: <<start, end>> after the bound conversion
    counter,      \* atomic<int> counter of get / range
    latest_run,   \* get: latest_run
    latest_val,   \* get: latest_val
    ranges,       \* range: map<int, vector<entry_t>*> as a set of [idx, data]
    lock,         \* SpinLock: 0 when free, else the worker holding it
    workers,      \* per worker: [pc, current_run]
    out,          \* the line a read printed, not yet consumed: [op, arg, line]
    nflush,       \* number of buffer flushes so far
    written,      \* history: key -> value of the latest write (-1: never written)
    last_write    \* history: the last put/del, while no read has searched the
                  \* runs since: its arguments, whether it returned (ok),
                  \* whether it repeats the write before it, and the flush
                  \* and merge steps it did

vars == <<buffer, levels, merge_ratio, num_threads, max_key, err, pc, key_arg, counter,
          latest_run, latest_val, ranges, lock, workers, out, nflush, written,
          last_write>>

(* --------------------------- Entry and Run ----------------------------- *)

Entry(k, v) == [key |-> k, val |-> v]

\* Run::Run(max_size)
NewRun(max_size) == [max_size |-> max_size, entries |-> <<>>]

\* Run::put : append
RunPut(run, entry) == [run EXCEPT !.entries = Append(@, entry)]

\* Run::get : the stored value (tombstone included), or nullptr
RunGet(run, key) ==
    LET hits == {i \in DOMAIN run.entries : run.entries[i].key = key}
    IN  IF hits = {} THEN [found |-> FALSE, val |-> VAL_TOMBSTONE]
        ELSE [found |-> TRUE,
              val |-> run.entries[CHOOSE i \in hits : \A j \in hits : i <= j].val]

\* Run::range(start, end) with end inclusive
RunRange(run, start, end) ==
    SelectSeq(run.entries, LAMBDA e : start <= e.key /\ e.key <= end)

(* ------------------------------ Buffer --------------------------------- *)

\* Buffer::get
BufferGet(b, key) ==
    LET hits == {i \in DOMAIN b.entries : b.entries[i].key = key}
    IN  IF hits = {} THEN [found |-> FALSE, val |-> VAL_TOMBSTONE]
        ELSE [found |-> TRUE, val |-> b.entries[CHOOSE i \in hits : TRUE].val]

\* Buffer::put : update in place, else insert in key order unless full
BufferPut(b, key, val) ==
    LET hits == {i \in DOMAIN b.entries : b.entries[i].key = key}
        lo   == SelectSeq(b.entries, LAMBDA e : e.key < key)
        hi   == SelectSeq(b.entries, LAMBDA e : e.key > key)
    IN  IF hits # {}
        THEN [ok |-> TRUE,
              buffer |-> [b EXCEPT !.entries = lo \o <<Entry(key, val)>> \o hi]]
        ELSE IF Len(b.entries) >= b.max_size
        THEN [ok |-> FALSE, buffer |-> b]
        ELSE [ok |-> TRUE,
              buffer |-> [b EXCEPT !.entries = lo \o <<Entry(key, val)>> \o hi]]

\* Buffer::range(start, end) with end inclusive
BufferRange(b, start, end) ==
    SelectSeq(b.entries, LAMBDA e : start <= e.key /\ e.key <= end)

\* Buffer::empty
BufferEmpty(b) == [b EXCEPT !.entries = <<>>]

(* ------------------------------- Level --------------------------------- *)

\* Level::Level(n, s)
NewLevel(n, s) == [max_runs |-> n, max_run_size |-> s, runs |-> <<>>]

\* Level::remaining
Remaining(level) == level.max_runs - Len(level.runs)

(* --------------------------- MergeContext ------------------------------ *)

\* MergeContext::add : register an input stream; earlier streams have precedence
MergeAdd(ctx, data) == Append(ctx, data)

\* MergeContext::done
MergeDone(ctx) == \A i \in DOMAIN ctx : ctx[i] = <<>>

\* MergeContext::next : the smallest key; among equal keys the stream added
\* first wins; every stream whose head has that key is advanced
MergeNext(ctx) ==
    LET live == {i \in DOMAIN ctx : ctx[i] # <<>>}
        k    == CHOOSE k \in {Head(ctx[i]).key : i \in live} :
                    \A j \in live : k <= Head(ctx[j]).key
        win  == CHOOSE i \in live :
                    /\ Head(ctx[i]).key = k
                    /\ \A j \in live : Head(ctx[j]).key = k => i <= j
    IN  [entry |-> Head(ctx[win]),
         ctx   |-> [i \in DOMAIN ctx |->
                      IF i \in live /\ Head(ctx[i]).key = k
                      THEN Tail(ctx[i]) ELSE ctx[i]]]

(* ------------------------------ LSMTree -------------------------------- *)

\* the constructor without max_run_size *= fanout
BuildLevels_NoGrowth(depth, fanout, max_run_size) ==
    [l \in 1..depth |-> NewLevel(fanout, max_run_size)]

\* LSMTree::LSMTree : depth levels, max_run_size growing by fanout
RECURSIVE BuildLevels(_, _, _)
BuildLevels(depth, fanout, max_run_size) ==
    IF depth <= 0 THEN <<>>
    ELSE <<NewLevel(fanout, max_run_size)>>
         \o BuildLevels(depth - 1, fanout, max_run_size * fanout)

\* merge_size without the merge ratio: the whole level
MergeSize_All(ratio, current) == Len(current.runs)

\* merge_size = merge_ratio * current->max_runs (float product truncated to
\* int; exact for the ratios used here), capped by the number of runs
MergeSize(ratio, current) ==
    LET m == (ratio.num * current.max_runs) \div ratio.den
    IN  IF m > Len(current.runs) THEN Len(current.runs) ELSE m

\* the merge context after the loop that adds current->runs[0..merge_size)
RECURSIVE MergeInputs(_, _, _, _)
MergeInputs(ctx, current, i, merge_size) ==
    IF i > merge_size THEN ctx
    ELSE MergeInputs(MergeAdd(ctx, current.runs[i].entries), current,
                     i + 1, merge_size)

\* the drain loop without the test that drops tombstones
RECURSIVE DrainInto_KeepTombstones(_, _, _)
DrainInto_KeepTombstones(run, ctx, next_is_last) ==
    IF MergeDone(ctx) THEN run
    ELSE LET n == MergeNext(ctx)
         IN  DrainInto_KeepTombstones(RunPut(run, n.entry), n.ctx, next_is_last)

\* the loop that drains the merge context into the new run of the next level
RECURSIVE DrainInto(_, _, _)
DrainInto(run, ctx, next_is_last) ==
    IF MergeDone(ctx) THEN run
    ELSE LET n == MergeNext(ctx)
         IN  IF ~(next_is_last /\ n.entry.val = VAL_TOMBSTONE)
             THEN DrainInto(RunPut(run, n.entry), n.ctx, next_is_last)
             ELSE DrainInto(run, n.ctx, next_is_last)

RECURSIVE Concat(_, _, _)
Concat(runs, i, n) ==
    IF i > n THEN <<>> ELSE runs[i].entries \o Concat(runs, i + 1, n)

\* the merge step erasing the newest merge_size runs instead of the oldest
MergeStep_EraseNewest(lv, ratio, c) ==
    LET merge_size == MergeSize(ratio, lv[c])
        ctx        == MergeInputs(<<>>, lv[c], 1, merge_size)
        run        == DrainInto(NewRun(lv[c + 1].max_run_size), ctx,
                                c + 1 = Len(lv))
    IN  [lv EXCEPT ![c + 1].runs = Append(@, run),
                   ![c].runs = SubSeq(@, 1, Len(@) - merge_size)]

\* the merge step writing the consumed runs one after the other instead of
\* merging them
MergeStep_Concat(lv, ratio, c) ==
    LET merge_size == MergeSize(ratio, lv[c])
        run        == [max_size |-> lv[c + 1].max_run_size,
                       entries  |-> Concat(lv[c].runs, 1, merge_size)]
    IN  [lv EXCEPT ![c + 1].runs = Append(@, run),
                   ![c].runs = SubSeq(@, merge_size + 1, Len(@))]

\* the part of merge_down after the recursion: merge the first merge_size
\* runs of level c into a new last run of level c + 1 and erase them
MergeStep(lv, ratio, c) ==
    LET merge_size == MergeSize(ratio, lv[c])
        ctx        == MergeInputs(<<>>, lv[c], 1, merge_size)
        run        == DrainInto(NewRun(lv[c + 1].max_run_size), ctx,
                                c + 1 = Len(lv))
    IN  [lv EXCEPT ![c + 1].runs = Append(@, run),
                   ![c].runs = SubSeq(@, merge_size + 1, Len(@))]

\* the runs one merge step of level c consumes (history only)
MergeRecord(lv, ratio, c) ==
    [from |-> c, inputs |-> SubSeq(lv[c].runs, 1, MergeSize(ratio, lv[c]))]

\* merge_down without the recursive call of line 63: the assertion is all
\* that is left of the branch for a full next level
merge_down_NoRecursiveCall(lv, ratio, c) ==
    IF lv[c].runs = <<>> THEN [levels |-> lv, err |-> "none", merges |-> <<>>]
    ELSE IF c >= Len(lv) THEN [levels |-> lv, err |-> "TreeFull", merges |-> <<>>]
    ELSE IF ~(Remaining(lv[c + 1]) > 0)
    THEN [levels |-> lv, err |-> "AssertFail", merges |-> <<>>]
    ELSE [levels |-> MergeStep(lv, ratio, c), err |-> "none",
          merges |-> <<MergeRecord(lv, ratio, c)>>]

\* merge_down giving up when the next level is full instead of merging it down
merge_down_NoRecursion(lv, ratio, c) ==
    IF lv[c].runs = <<>> THEN [levels |-> lv, err |-> "none", merges |-> <<>>]
    ELSE IF c >= Len(lv) \/ Remaining(lv[c + 1]) = 0
    THEN [levels |-> lv, err |-> "TreeFull", merges |-> <<>>]
    ELSE [levels |-> MergeStep(lv, ratio, c), err |-> "none",
          merges |-> <<MergeRecord(lv, ratio, c)>>]

\* LSMTree::merge_down(current), current = levels.begin() + (c - 1); the
\* result also lists the merge steps done, deepest first (history only)
RECURSIVE merge_down(_, _, _)
merge_down(lv, ratio, c) ==
    IF lv[c].runs = <<>> THEN [levels |-> lv, err |-> "none", merges |-> <<>>]
    ELSE IF c >= Len(lv) THEN [levels |-> lv, err |-> "TreeFull", merges |-> <<>>]
    ELSE IF Remaining(lv[c + 1]) = 0
    THEN LET r == merge_down(lv, ratio, c + 1)
         IN  IF r.err # "none" THEN r
             ELSE IF ~(Remaining(r.levels[c + 1]) > 0)
             THEN [r EXCEPT !.err = "AssertFail"]
             ELSE [levels |-> MergeStep(r.levels, ratio, c), err |-> "none",
                   merges |-> Append(r.merges, MergeRecord(r.levels, ratio, c))]
    ELSE [levels |-> MergeStep(lv, ratio, c), err |-> "none",
          merges |-> <<MergeRecord(lv, ratio, c)>>]

\* the new level-0 run written from buffer.entries
RECURSIVE FlushRun(_, _)
FlushRun(run, entries) ==
    IF entries = <<>> THEN run
    ELSE FlushRun(RunPut(run, Head(entries)), Tail(entries))

\* put flushing the buffer into level 0 before making room with merge_down
PutFlush_FlushFirst(buf, lv, ratio, key, val) ==
    LET full == Remaining(lv[1]) = 0
        run  == FlushRun(NewRun(lv[1].max_run_size), buf.entries)
        lv1  == [lv EXCEPT ![1].runs = Append(@, run)]
        md   == IF full THEN merge_down(lv1, ratio, 1)
                ELSE [levels |-> lv1, err |-> "none", merges |-> <<>>]
        bp2  == BufferPut(BufferEmpty(buf), key, val)
    IN  IF md.err # "none"
        THEN [buffer |-> buf, levels |-> md.levels, err |-> md.err,
              flushed |-> FALSE, merged |-> full, merges |-> md.merges]
        ELSE [buffer |-> bp2.buffer, levels |-> md.levels,
              err |-> IF bp2.ok THEN "none" ELSE "AssertFail",
              flushed |-> TRUE, merged |-> full, merges |-> md.merges]

\* LSMTree::put after buffer.put has failed: make room in level 0, flush the
\* buffer into a new level-0 run, empty it and insert the pair
PutFlush(buf, lv, ratio, key, val) ==
    LET full == Remaining(lv[1]) = 0
        md   == IF full THEN merge_down(lv, ratio, 1)
                ELSE [levels |-> lv, err |-> "none", merges |-> <<>>]
    IN  IF md.err # "none"
        THEN [buffer |-> buf, levels |-> md.levels, err |-> md.err,
              flushed |-> FALSE, merged |-> full, merges |-> md.merges]
        ELSE
        LET run == FlushRun(NewRun(md.levels[1].max_run_size), buf.entries)
            lv2 == [md.levels EXCEPT ![1].runs = Append(@, run)]
            bp2 == BufferPut(BufferEmpty(buf), key, val)
        IN  [buffer |-> bp2.buffer, levels |-> lv2,
             err |-> IF bp2.ok THEN "none" ELSE "AssertFail",
             flushed |-> TRUE, merged |-> full, merges |-> md.merges]

\* put without the early return after a successful buffer.put
put_AlwaysFlush(buf, lv, ratio, key, val) == PutFlush(buf, lv, ratio, key, val)

\* LSMTree::put; flushed, merged and merges describe what the call did
put(buf, lv, ratio, key, val) ==
    LET bp == BufferPut(buf, key, val)
    IN  IF bp.ok
        THEN [buffer |-> bp.buffer, levels |-> lv, err |-> "none",
              flushed |-> FALSE, merged |-> FALSE, merges |-> <<>>]
        ELSE PutFlush(buf, lv, ratio, key, val)

\* LSMTree::get_run(index) : runs numbered newest first across the levels
RECURSIVE get_run(_, _, _)
get_run(lv, l, index) ==
    IF l > Len(lv) THEN [found |-> FALSE, level |-> 0, pos |-> 0]
    ELSE IF index < Len(lv[l].runs)
    THEN [found |-> TRUE, level |-> l, pos |-> Len(lv[l].runs) - index]
    ELSE get_run(lv, l + 1, index - Len(lv[l].runs))

RunAt(lv, r) == lv[r.level].runs[r.pos]

(* ------------------------- initial state ------------------------------- *)

NoWorkers == <<>>

\* nothing printed since the last write
NoOut == [op |-> "none", arg |-> <<>>, line |-> <<>>]

\* the locals of get / range while no read is in progress
ReadIdle ==
    /\ pc' = "idle"
    /\ key_arg' = <<>>
    /\ counter' = 0
    /\ latest_run' = -1
    /\ latest_val' = VAL_TOMBSTONE
    /\ ranges' = {}
    /\ lock' = 0
    /\ workers' = NoWorkers

\* the constructions explored: every combination of the parameters with
\* keys 1..MaxKey, and single-threaded two-level trees of buffer capacity 1
\* that merge whole levels, with one more key and up to one more run per level
Configs ==
    [buffer_max_entries : 1..MaxBuf, depth : 1..MaxDepth, fanout : 1..MaxFanout,
     num_threads : 1..MaxThreads, num : 1..RatioDen, max_key : {MaxKey}]
    \cup
    [buffer_max_entries : {1}, depth : {2}, fanout : 2..(MaxFanout + 1),
     num_threads : {1}, num : {RatioDen}, max_key : {MaxKey + 1}]

\* the number of buffer flushes explored from the current construction
FlushBudget == IF max_key > MaxKey THEN MaxFlush + 1 ELSE MaxFlush

NoWrite == [key |-> 0, val |-> 0, ok |-> FALSE, repeat |-> FALSE,
            flushed |-> FALSE, merged |-> FALSE, merges |-> <<>>]

\* LSMTree::LSMTree(buffer_max_entries, depth, fanout, num_threads, merge_ratio)
Init ==
    /\ \E c \in Configs :
          /\ buffer = [max_size |-> c.buffer_max_entries, entries |-> <<>>]
          /\ levels = BuildLevels(c.depth, c.fanout, c.buffer_max_entries)
          /\ merge_ratio = [num |-> c.num, den |-> RatioDen]
          /\ num_threads = c.num_threads
          /\ max_key = c.max_key
          /\ written = [k \in 1..c.max_key |-> -1]
    /\ err = "none"
    /\ pc = "idle"
    /\ key_arg = <<>>
    /\ counter = 0
    /\ latest_run = -1
    /\ latest_val = VAL_TOMBSTONE
    /\ ranges = {}
    /\ lock = 0
    /\ workers = NoWorkers
    /\ out = NoOut
    /\ nflush = 0
    /\ last_write = NoWrite

(* ----------------------------- write path ------------------------------ *)

\* a call put(key, val) by the (single) writer
DoPut(key, val) ==
    LET r == put(buffer, levels, merge_ratio, key, val)
    IN  /\ pc = "idle"
        /\ err = "none"
        /\ out = NoOut
        /\ r.flushed => nflush < FlushBudget
        /\ buffer' = r.buffer
        /\ levels' = r.levels
        /\ err' = r.err
        /\ nflush' = IF r.flushed THEN nflush + 1 ELSE nflush
        /\ written' = IF r.err = "none" THEN [written EXCEPT ![key] = val]
                      ELSE written
        /\ last_write' = [key |-> key, val |-> val, ok |-> r.err = "none",
                          repeat |-> /\ last_write.ok
                                     /\ last_write.key = key
                                     /\ last_write.val = val,
                          flushed |-> r.flushed, merged |-> r.merged,
                          merges |-> r.merges]
        /\ UNCHANGED <<merge_ratio, num_threads, max_key, pc, key_arg, counter,
                       latest_run, latest_val, ranges, lock, workers, out>>

Put == \E key \in 1..max_key, val \in Vals : DoPut(key, val)

\* LSMTree::del
Del == \E key \in 1..max_key : DoPut(key, VAL_TOMBSTONE)

\* what a read leaves alone
tree_vars == <<buffer, levels, merge_ratio, num_threads, max_key, err, nflush,
               written>>

(* ------------------------------- get ----------------------------------- *)

\* the client takes the printed line off the output before its next call
Consume ==
    /\ pc = "idle"
    /\ out # NoOut
    /\ out' = NoOut
    /\ UNCHANGED <<tree_vars, last_write, pc, key_arg, counter, latest_run,
                   latest_val, ranges, lock, workers>>

\* what get prints before the newline
GetLine(found, val) == IF found /\ val # VAL_TOMBSTONE THEN <<val>> ELSE <<>>

\* worker_pool.launch(search): every worker thread starts the task
Launch == [w \in 1..num_threads |-> [pc |-> "claim", current_run |-> -1]]

\* get(key) up to worker_pool.launch: a buffer hit prints and returns
GetStart ==
    \E key \in 1..max_key :
      LET buffer_val == BufferGet(buffer, key)
      IN  /\ pc = "idle"
          /\ err = "none"
          /\ out = NoOut
          /\ IF buffer_val.found
             THEN /\ out' = [op |-> "get", arg |-> <<key>>,
                             line |-> GetLine(TRUE, buffer_val.val)]
                  /\ UNCHANGED <<pc, key_arg, counter, latest_run, latest_val,
                                 ranges, lock, workers, last_write>>
             ELSE /\ pc' = "get"
                  /\ last_write' = NoWrite
                  /\ key_arg' = <<key>>
                  /\ counter' = 0
                  /\ latest_run' = -1
                  /\ workers' = Launch
                  /\ out' = NoOut
                  /\ UNCHANGED <<latest_val, ranges, lock>>
          /\ UNCHANGED tree_vars

\* current_run = counter, without the increment
GetClaim_NoIncrement(w) ==
    /\ pc = "get"
    /\ workers[w].pc = "claim"
    /\ workers' = [workers EXCEPT ![w] = [pc |-> "check", current_run |-> counter]]
    /\ UNCHANGED <<pc, key_arg, counter, latest_run, latest_val, ranges, lock, out>>
    /\ UNCHANGED <<tree_vars, last_write>>

\* current_run = counter++
GetClaim(w) ==
    /\ pc = "get"
    /\ workers[w].pc = "claim"
    /\ workers' = [workers EXCEPT ![w] = [pc |-> "check", current_run |-> counter]]
    /\ counter' = counter + 1
    /\ UNCHANGED <<pc, key_arg, latest_run, latest_val, ranges, lock, out>>
    /\ UNCHANGED <<tree_vars, last_write>>

\* the test that stops the search, and the probe run->get(key)
SearchNext(lv, key, latest, current_run) ==
    LET run == get_run(lv, 1, current_run)
    IN  IF latest >= 0 \/ ~run.found THEN "done"
        ELSE IF ~RunGet(RunAt(lv, run), key).found THEN "claim"
        ELSE "lock"

\* the task's next position; current_run is dead once the task returns or
\* calls search() again
Continue(next_pc, worker) ==
    [pc |-> next_pc,
     current_run |-> IF next_pc \in {"done", "claim"} THEN -1
                     ELSE worker.current_run]

GetCheck(w) ==
    /\ pc = "get"
    /\ workers[w].pc = "check"
    /\ workers' = [workers EXCEPT
          ![w] = Continue(SearchNext(levels, key_arg[1], latest_run,
                                     workers[w].current_run), workers[w])]
    /\ UNCHANGED <<pc, key_arg, counter, latest_run, latest_val, ranges, lock, out>>
    /\ UNCHANGED <<tree_vars, last_write>>

\* lock.lock()
GetLock(w) ==
    /\ pc = "get"
    /\ workers[w].pc = "lock"
    /\ lock = 0
    /\ lock' = w
    /\ workers' = [workers EXCEPT ![w].pc = "crit"]
    /\ UNCHANGED <<pc, key_arg, counter, latest_run, latest_val, ranges, out>>
    /\ UNCHANGED <<tree_vars, last_write>>

\* whether a hit at current_run replaces the recorded one
Better(latest, current_run) == latest < 0 \/ current_run < latest

\* the critical section without lock.unlock()
GetUpdate_NoUnlock(w) ==
    LET current_run == workers[w].current_run
        current_val == RunGet(RunAt(levels, get_run(levels, 1, current_run)),
                              key_arg[1]).val
    IN  /\ pc = "get"
        /\ workers[w].pc = "crit"
        /\ IF Better(latest_run, current_run)
           THEN latest_run' = current_run /\ latest_val' = current_val
           ELSE UNCHANGED <<latest_run, latest_val>>
        /\ workers' = [workers EXCEPT ![w] = Continue("done", workers[w])]
        /\ UNCHANGED <<pc, key_arg, counter, ranges, lock, out>>
        /\ UNCHANGED <<tree_vars, last_write>>

\* the critical section and lock.unlock()
GetUpdate(w) ==
    LET current_run == workers[w].current_run
        current_val == RunGet(RunAt(levels, get_run(levels, 1, current_run)),
                              key_arg[1]).val
    IN  /\ pc = "get"
        /\ workers[w].pc = "crit"
        /\ IF Better(latest_run, current_run)
           THEN latest_run' = current_run /\ latest_val' = current_val
           ELSE UNCHANGED <<latest_run, latest_val>>
        /\ lock' = 0
        /\ workers' = [workers EXCEPT ![w] = Continue("done", workers[w])]
        /\ UNCHANGED <<pc, key_arg, counter, ranges, out>>
        /\ UNCHANGED <<tree_vars, last_write>>

\* worker_pool.wait_all() has returned
Quiescent == \A w \in DOMAIN workers : workers[w].pc = "done"

\* get after wait_all: print the value found, if any
GetFinish ==
    /\ pc = "get"
    /\ Quiescent
    /\ out' = [op |-> "get", arg |-> key_arg,
                line |-> GetLine(latest_run >= 0, latest_val)]
    /\ ReadIdle
    /\ UNCHANGED <<tree_vars, last_write>>

(* ------------------------------ range ---------------------------------- *)

\* the token printed between two pairs
SPACE == <<>>

\* the intervals asked for: every start < end, and the empty ones end = start
\* and end < start
RangeArgs(n) ==
    {a \in (1..n) \X (1..(n + 1)) : a[1] <= a[2]} \cup {<<n, 1>>}

\* range(start, end) up to worker_pool.launch
RangeStart ==
    \E a \in RangeArgs(max_key) : LET start == a[1]  end == a[2] IN
      /\ pc = "idle"
      /\ err = "none"
      /\ out = NoOut
      /\ IF end <= start
         THEN /\ out' = [op |-> "range", arg |-> <<start, end>>, line |-> <<>>]
              /\ UNCHANGED <<pc, key_arg, counter, latest_run, latest_val,
                             ranges, lock, workers, last_write>>
         ELSE /\ pc' = "range"
              /\ last_write' = NoWrite
              /\ key_arg' = <<start, end - 1>>
              /\ ranges' = {[idx |-> 0,
                             data |-> BufferRange(buffer, start, end - 1)]}
              /\ counter' = 0
              /\ workers' = Launch
              /\ out' = NoOut
              /\ UNCHANGED <<latest_run, latest_val, lock>>
      /\ UNCHANGED tree_vars

\* current_run = counter++ and the test (run = get_run(current_run)) != nullptr,
\* which reads only the task's local and the run lists, fixed during a read
RangeClaim(w) ==
    /\ pc = "range"
    /\ workers[w].pc = "claim"
    /\ workers' = [workers EXCEPT
          ![w] = Continue(IF get_run(levels, 1, counter).found
                          THEN "lock" ELSE "done",
                          [pc |-> "claim", current_run |-> counter])]
    /\ counter' = counter + 1
    /\ UNCHANGED <<pc, key_arg, latest_run, latest_val, ranges, lock, out>>
    /\ UNCHANGED <<tree_vars, last_write>>

\* lock.lock()
RangeLock(w) ==
    /\ pc = "range"
    /\ workers[w].pc = "lock"
    /\ lock = 0
    /\ lock' = w
    /\ workers' = [workers EXCEPT ![w].pc = "crit"]
    /\ UNCHANGED <<pc, key_arg, counter, latest_run, latest_val, ranges, out>>
    /\ UNCHANGED <<tree_vars, last_write>>

\* map::insert : no effect when the key is already present
MapInsert(map, idx, data) ==
    IF \E r \in map : r.idx = idx THEN map
    ELSE map \cup {[idx |-> idx, data |-> data]}

\* ranges.insert({current_run + 1, run->range(start, end)}), lock.unlock(),
\* then search() again
RangeInsert(w) ==
    LET current_run == workers[w].current_run
        run == RunAt(levels, get_run(levels, 1, current_run))
    IN  /\ pc = "range"
        /\ workers[w].pc = "crit"
        /\ ranges' = MapInsert(ranges, current_run + 1,
                               RunRange(run, key_arg[1], key_arg[2]))
        /\ lock' = 0
        /\ workers' = [workers EXCEPT ![w] = Continue("claim", workers[w])]
        /\ UNCHANGED <<pc, key_arg, counter, latest_run, latest_val, out>>
        /\ UNCHANGED <<tree_vars, last_write>>

\* the merge context after the loop over the map, in ascending key order
RECURSIVE RangeInputs(_, _)
RangeInputs(ctx, map) ==
    IF map = {} THEN ctx
    ELSE LET r == CHOOSE r \in map : \A q \in map : r.idx <= q.idx
         IN  RangeInputs(MergeAdd(ctx, r.data), map \ {r})

\* the loop that prints the merged entries
RECURSIVE RangeLine(_, _)
RangeLine(line, ctx) ==
    IF MergeDone(ctx) THEN line
    ELSE LET n == MergeNext(ctx)
         IN  IF n.entry.val # VAL_TOMBSTONE
             THEN RangeLine(line \o <<<<n.entry.key, n.entry.val>>>>
                                 \o (IF ~MergeDone(n.ctx) THEN <<SPACE>> ELSE <<>>),
                            n.ctx)
             ELSE RangeLine(line, n.ctx)

\* range after wait_all: merge the sub-ranges and print
RangeFinish ==
    /\ pc = "range"
    /\ Quiescent
    /\ out' = [op |-> "range", arg |-> <<key_arg[1], key_arg[2] + 1>>,
               line |-> RangeLine(<<>>, RangeInputs(<<>>, ranges))]
    /\ ReadIdle
    /\ UNCHANGED <<tree_vars, last_write>>

Next ==
    \/ Put
    \/ Del
    \/ GetStart
    \/ \E w \in DOMAIN workers : GetClaim(w)
    \/ \E w \in DOMAIN workers : GetCheck(w)
    \/ \E w \in DOMAIN workers : GetLock(w)
    \/ \E w \in DOMAIN workers : GetUpdate(w)
    \/ GetFinish
    \/ RangeStart
    \/ \E w \in DOMAIN workers : RangeClaim(w)
    \/ \E w \in DOMAIN workers : RangeLock(w)
    \/ \E w \in DOMAIN workers : RangeInsert(w)
    \/ RangeFinish
    \/ Consume

Spec == Init /\ [][Next]_vars

(* ======================= properties of the tree ======================== *)

RECURSIVE NumRuns(_, _)
NumRuns(lv, l) == IF l > Len(lv) THEN 0 ELSE Len(lv[l].runs) + NumRuns(lv, l + 1)

\* the global run indexes (0 = newest) whose run holds key
HitIndexes(lv, key) ==
    {i \in 0..(NumRuns(lv, 1) - 1) :
        RunGet(RunAt(lv, get_run(lv, 1, i)), key).found}

Min(S) == CHOOSE x \in S : \A y \in S : x <= y

HasKey(run, key) == \E i \in DOMAIN run.entries : run.entries[i].key = key

HasTombstone(run, key) ==
    \E i \in DOMAIN run.entries :
        run.entries[i].key = key /\ run.entries[i].val = VAL_TOMBSTONE

\* what get must print for a key whose latest write is v (-1: never written)
LatestLine(v) == IF v \in Vals THEN <<v>> ELSE <<>>

\* the pairs a range over start..end-1 must print, given the latest writes
RECURSIVE LatestPairs(_, _, _)
LatestPairs(w, start, end) ==
    IF start >= end THEN <<>>
    ELSE (IF w[start] \in Vals THEN <<<<start, w[start]>>>> ELSE <<>>)
         \o LatestPairs(w, start + 1, end)

\* the key:value tokens of a printed line
Pairs(line) == SelectSeq(line, LAMBDA t : t # SPACE)

\* C1: after writes that all returned, get(k) prints the value of the latest
\* write to k when that write was a put, and nothing when it was a del or k
\* was never written.
C1_Freshness ==
    out.op = "get" => out.line = LatestLine(written[out.arg[1]])

\* C2: after writes that all returned, range(start, end) prints exactly the
\* pairs (k, v) with start <= k < end whose latest write is put(k, v), once
\* each, in ascending key order.
C2_RangeCoverage ==
    out.op = "range" =>
        Pairs(out.line) = LatestPairs(written, out.arg[1], out.arg[2])

\* C3: in a get that searches the runs, once wait_all() has returned the
\* recorded (latest_run, latest_val) is the smallest run index holding the key
\* with that run's value (-1 when no run holds it), and a task about to give
\* up an existing run unprobed sees a recorded hit at an index <= its own.
C3_SmallestHitWins ==
    /\ (pc = "get" /\ Quiescent) =>
          LET hits == HitIndexes(levels, key_arg[1])
          IN  IF hits = {} THEN latest_run = -1
              ELSE /\ latest_run = Min(hits)
                   /\ latest_val =
                        RunGet(RunAt(levels, get_run(levels, 1, Min(hits))),
                               key_arg[1]).val
    /\ \A w \in DOMAIN workers :
          (/\ pc = "get"
           /\ workers[w].pc = "check"
           /\ latest_run >= 0
           /\ get_run(levels, 1, workers[w].current_run).found)
          => latest_run <= workers[w].current_run

\* C4: after every put/del that returned, every level holds at most max_runs
\* runs.
C4_RunCount ==
    err = "none" => \A l \in DOMAIN levels : Len(levels[l].runs) <= levels[l].max_runs

RECURSIVE Pow(_, _)
Pow(b, e) == IF e = 0 THEN 1 ELSE b * Pow(b, e - 1)

\* C5: after every put/del that returned, level i (counted from 0) has
\* max_run_size = buffer capacity * fanout^i and none of its runs, whether
\* flushed from the buffer or written by merge_down, holds more entries.
C5_RunSize ==
    err = "none" =>
        \A l \in DOMAIN levels :
            /\ levels[l].max_run_size
                   = buffer.max_size * Pow(levels[l].max_runs, l - 1)
            /\ \A r \in DOMAIN levels[l].runs :
                   Len(levels[l].runs[r].entries) <= levels[l].max_run_size

\* a flushed run and a merged run both fill their level's max_run_size
C5_Witness ==
    /\ err = "none"
    /\ Len(levels) >= 2
    /\ levels[2].max_run_size >= 2
    /\ \E r \in DOMAIN levels[1].runs :
          Len(levels[1].runs[r].entries) = levels[1].max_run_size
    /\ \E r \in DOMAIN levels[2].runs :
          Len(levels[2].runs[r].entries) = levels[2].max_run_size

\* the runs hold a tombstone for key and no live entry for it, so the merged
\* entry for key is the tombstone in whatever order the runs are merged
OnlyTombstone(runs, key) ==
    /\ \E i \in DOMAIN runs : HasTombstone(runs[i], key)
    /\ \A i \in DOMAIN runs : HasKey(runs[i], key) => HasTombstone(runs[i], key)

\* C6: once a merge_down into the deepest level whose input holds a tombstone
\* for key k (and no other entry for k) has returned, no run of the deepest
\* level holds an entry for k.
C6_TombstoneElision ==
    \A i \in DOMAIN last_write.merges :
        LET m == last_write.merges[i]
        IN  (last_write.ok /\ m.from + 1 = Len(levels)) =>
                \A k \in 1..max_key :
                    OnlyTombstone(m.inputs, k) =>
                        \A r \in DOMAIN levels[Len(levels)].runs :
                            ~HasKey(levels[Len(levels)].runs[r], k)

\* a step that is a call of put or del (its arguments are in last_write')
WriteStep ==
    /\ pc = "idle" /\ pc' = "idle"
    /\ out = NoOut /\ out' = NoOut
    /\ err = "none"
    /\ last_write'.key # 0

AllFull(lv) == \A l \in DOMAIN lv : Remaining(lv[l]) = 0

\* C7: a put or del fails with TreeFull exactly when the buffer rejects the
\* write and every level has remaining() = 0, and succeeds otherwise; and
\* merge_down on a level without runs changes nothing and raises no error.
C7_TreeFull ==
    [][ /\ \A c \in DOMAIN levels :
              levels[c].runs = <<>> =>
                  merge_down(levels, merge_ratio, c)
                      = [levels |-> levels, err |-> "none", merges |-> <<>>]
        /\ WriteStep =>
              LET rejected == ~BufferPut(buffer, last_write'.key,
                                         last_write'.val).ok
              IN  IF rejected /\ AllFull(levels)
                  THEN err' = "TreeFull"
                  ELSE err' = "none" ]_vars

\* a put has failed with TreeFull in a tree of several levels
C7_Witness ==
    /\ err = "TreeFull"
    /\ Len(levels) >= 2
    /\ AllFull(levels)

\* the construction of end-to-end scenario 6
Scenario6 ==
    /\ buffer.max_size = 1
    /\ Len(levels) = 2
    /\ levels[1].max_runs = 2
    /\ 2 * merge_ratio.num = merge_ratio.den

\* C8 as stated: in scenario 6, once a put that merged level 0 into level 1
\* has returned, level 0 holds strictly fewer runs than its max_runs.
C8_FewerThanMax ==
    (Scenario6 /\ last_write.ok /\ last_write.merged) =>
        Len(levels[1].runs) < levels[1].max_runs

\* C8 amended: in scenario 6, once a put that merged level 0 into level 1 has
\* returned, level 0 holds exactly max_runs runs: one run was merged away and
\* the flushed buffer was appended.
C8_ExactlyMax ==
    (Scenario6 /\ last_write.ok /\ last_write.merged) =>
        Len(levels[1].runs) = levels[1].max_runs

\* the state after the fifth put of scenario 6: four flushes, two merges
C8_Witness ==
    /\ Scenario6 /\ last_write.ok /\ last_write.merged
    /\ last_write.val # VAL_TOMBSTONE
    /\ nflush = 4
    /\ Len(levels[2].runs) = 2

C10_IdempotentDelete ==
    [][ (/\ pc = "idle" /\ out = NoOut /\ err = "none"
         /\ last_write.ok /\ last_write.val = VAL_TOMBSTONE) =>
          /\ (/\ WriteStep
              /\ last_write'.key = last_write.key
              /\ last_write'.val = VAL_TOMBSTONE)
             => (buffer' = buffer /\ levels' = levels /\ err' = "none")
          /\ (\/ (pc' = "get" /\ key_arg' = <<last_write.key>>)
              \/ (out'.op = "get" /\ out'.arg = <<last_write.key>>))
             => (pc' = "idle" /\ out'.line = <<>>) ]_vars

\* del(k); del(k); get(k) has run and printed the empty line
C10_Witness ==
    /\ last_write.ok /\ last_write.repeat
    /\ last_write.val = VAL_TOMBSTONE
    /\ out.op = "get" /\ out.arg = <<last_write.key>> /\ out.line = <<>>

\* the position of the newest of the runs (oldest first) that holds key
NewestHolding(runs, key) ==
    CHOOSE i \in DOMAIN runs :
        /\ HasKey(runs[i], key)
        /\ \A j \in DOMAIN runs : HasKey(runs[j], key) => j <= i

\* C11: for every key held by the runs one merge_down step consumes, when
\* the step consumes two or more runs, the new last run of the next level
\* holds the entry of the newest consumed run holding the key (nothing, where
\* that entry is a tombstone entering the deepest level).
C11_NewestWins ==
    \A i \in DOMAIN last_write.merges :
        LET m    == last_write.merges[i]
            next == levels[m.from + 1]
            new  == next.runs[Len(next.runs)]
        IN  (last_write.ok /\ Len(m.inputs) >= 2) =>
              \A k \in 1..max_key :
                    (\E j \in DOMAIN m.inputs : HasKey(m.inputs[j], k)) =>
                        LET e == RunGet(m.inputs[NewestHolding(m.inputs, k)], k)
                        IN  IF m.from + 1 = Len(levels) /\ e.val = VAL_TOMBSTONE
                            THEN ~HasKey(new, k)
                            ELSE RunGet(new, k) = e

\* seq without its first n elements
Drop(seq, n) == SubSeq(seq, n + 1, Len(seq))

\* min(floor(merge_ratio * max_runs), runs.len()) of a level
FloorMergeSize(level) ==
    Min({(merge_ratio.num * level.max_runs) \div merge_ratio.den,
         Len(level.runs)})

\* the number of levels, from level 0 down, that have remaining() = 0
RECURSIVE FullPrefix(_, _)
FullPrefix(lv, l) ==
    IF l > Len(lv) \/ Remaining(lv[l]) # 0 THEN 0 ELSE 1 + FullPrefix(lv, l + 1)

\* C12: a put that has to merge (the buffer rejects the write, levels 0..d-1
\* are full, level d is not) and returns leaves every merged level without
\* exactly its oldest merge_size runs, the rest unchanged and in order,
\* followed by exactly one new run (the flushed buffer, unchanged by the
\* merges, in level 0); level d keeps its runs and gains one new last run;
\* deeper levels are untouched.
C12_MergeFrame ==
    [][ LET d == FullPrefix(levels, 1)
        IN  (/\ WriteStep
             /\ ~BufferPut(buffer, last_write'.key, last_write'.val).ok
             /\ d >= 1
             /\ err' = "none") =>
              /\ d < Len(levels)
              /\ \A l \in DOMAIN levels :
                    LET old == levels[l].runs
                        new == levels'[l].runs
                        ms  == FloorMergeSize(levels[l])
                    IN  IF l <= d
                        THEN /\ Len(new) = Len(old) - ms + 1
                             /\ SubSeq(new, 1, Len(old) - ms) = Drop(old, ms)
                        ELSE IF l = d + 1
                        THEN /\ Len(new) = Len(old) + 1
                             /\ SubSeq(new, 1, Len(old)) = old
                        ELSE new = old
              /\ levels'[1].runs[Len(levels'[1].runs)].entries = buffer.entries
      ]_vars

\* a merge without recursion has left newer runs in level 0 behind and has
\* added its run after an older run of level 1
C12_Witness ==
    /\ last_write.ok
    /\ Len(last_write.merges) = 1
    /\ Len(levels[1].runs) >= 2
    /\ Len(levels[2].runs) >= 2
    /\ 2 * merge_ratio.num = merge_ratio.den

\* C13: no assertion fails: in every state, for every level of the chain of
\* full levels that put would merge down, the recursive merge_down of the
\* next level, when it returns, leaves next.remaining() > 0.
C13_AssertHolds ==
    /\ err # "AssertFail"
    /\ \A c \in 1..(FullPrefix(levels, 1) - 1) :
          LET r == merge_down(levels, merge_ratio, c + 1)
          IN  r.err = "none" => Remaining(r.levels[c + 1]) > 0

\* a put has recursed into a full next level and has returned
C13_Witness ==
    /\ last_write.ok
    /\ err = "none"
    /\ Len(last_write.merges) >= 2
    /\ last_write.merges[1].from = last_write.merges[2].from + 1

\* C14: within a get, every index a search task claims is the value of the
\* counter, the counter moves past it in the same step and never goes back,
\* and every index held by a task lies below the counter: no index is claimed
\* twice, no two tasks hold the same index, and no run is probed twice.
C14_ClaimOnce ==
    [][ (pc = "get" /\ pc' = "get") =>
          /\ counter' >= counter
          /\ \A w \in DOMAIN workers :
                /\ workers[w].current_run < counter
                /\ (/\ workers'[w].current_run >= 0
                    /\ workers'[w].current_run # workers[w].current_run)
                   => /\ workers'[w].current_run = counter
                      /\ counter' = counter + 1
                /\ \A v \in DOMAIN workers :
                      (v # w /\ workers'[v].current_run >= 0)
                      => workers'[v].current_run # workers'[w].current_run
      ]_vars

\* two tasks hold indexes at once, one of them after a miss and a second claim
C14_Witness ==
    /\ pc = "get"
    /\ Len(workers) = 2
    /\ workers[1].current_run >= 0
    /\ workers[2].current_run >= 0
    /\ counter >= 3

(* ------------------------- fair scheduling ----------------------------- *)

\* one step of worker thread w, in get or in range
WorkerStep(w) ==
    /\ w \in DOMAIN workers
    /\ \/ GetClaim(w) \/ GetCheck(w) \/ GetLock(w) \/ GetUpdate(w)
       \/ RangeClaim(w) \/ RangeLock(w) \/ RangeInsert(w)

\* the constructions explored under fairness: two levels of MaxFanout runs,
\* every number of worker threads and every merge ratio
FairInit ==
    /\ Init
    /\ Len(levels) = 2
    /\ levels[1].max_runs = MaxFanout
    /\ max_key = MaxKey

\* range can take its last step: ENABLED <<RangeFinish>>_vars
RangeReturns == pc = "range" /\ Quiescent

\* weak fairness of every worker thread and of the calling thread's return
\* from wait_all (for RangeFinish written out as []<>~ENABLED \/ []<><<A>>_v)
FairSpec ==
    /\ FairInit
    /\ [][Next]_vars
    /\ \A w \in 1..MaxThreads : WF_vars(WorkerStep(w))
    /\ WF_vars(GetFinish)
    /\ ([]<>(~RangeReturns) \/ []<><<RangeFinish>>_vars)

\* C15: under fair scheduling every get and every range that has launched its
\* search tasks reaches the point where all tasks have returned, the lock is
\* free whenever all tasks have returned, and the call then prints its line
\* (with the terminator) and returns.
C15_Terminates ==
    /\ [](((pc # "idle") /\ Quiescent) => lock = 0)
    /\ (pc # "idle") ~> ((pc # "idle") /\ Quiescent)
    /\ (pc # "idle") ~> (pc = "idle" /\ out.op \in {"get", "range"})

\* a get whose tasks searched the runs and took the lock has printed a value
C15_Witness ==
    /\ pc = "idle"
    /\ out.op = "get"
    /\ out.line # <<>>
    /\ last_write = NoWrite
    /\ num_threads >= 2

\* C16: the line range prints is empty or consists of key:value tokens with
\* exactly one space between two tokens and none before the first or after
\* the last.
C16_LineFormat ==
    out.op = "range" =>
        LET n == Len(out.line)
        IN  /\ n = 0 \/ n % 2 = 1
            /\ \A i \in 1..n : (out.line[i] = SPACE) <=> (i % 2 = 0)

\* what a search in freshness order yields for key: the value of the first
\* hit in the buffer, then in the runs newest first; <<>> when there is no
\* hit or the first hit is a tombstone
Visible(buf, lv, key) ==
    LET b    == BufferGet(buf, key)
        hits == HitIndexes(lv, key)
    IN  IF b.found THEN LatestLine(b.val)
        ELSE IF hits = {} THEN <<>>
        ELSE LatestLine(RunGet(RunAt(lv, get_run(lv, 1, Min(hits))), key).val)

\* C17: whenever level 0 is full, the merge_down(level 0) the next flushing
\* put makes, if it returns, leaves the first hit in freshness order of every
\* key as it was.
C17_Transparent ==
    (err = "none" /\ Remaining(levels[1]) = 0) =>
        LET r == merge_down(levels, merge_ratio, 1)
        IN  r.err = "none" =>
                \A k \in 1..max_key :
                    Visible(buffer, r.levels, k) = Visible(buffer, levels, k)

\* C18: a put or del that fails with TreeFull leaves the buffer and the runs
\* of every level as they were before the call.
C18_FailBeforeMutation ==
    [][ (WriteStep /\ err' = "TreeFull") =>
            (buffer' = buffer /\ levels' = levels) ]_vars

\* a put has failed with TreeFull after merge_down recursed through three
\* full levels
C18_Witness ==
    /\ err = "TreeFull"
    /\ ~last_write.ok
    /\ last_write.merged
    /\ Len(levels) >= 3

\* some run of the deepest level holds a tombstone
DeepestHasTombstone ==
    \E r \in DOMAIN levels[Len(levels)].runs :
        \E k \in 1..max_key : HasTombstone(levels[Len(levels)].runs[r], k)

\* C19 as stated: for every depth >= 1 no run of the deepest level holds a
\* tombstone.
C19_NoTombstoneAnyDepth == ~DeepestHasTombstone

\* C19 amended: for every depth >= 2 no run of the deepest level holds a
\* tombstone (with depth 1 the buffer flush copies tombstones into level 0).
C19_NoTombstoneBelowL0 == Len(levels) >= 2 => ~DeepestHasTombstone

\* a merge into the deepest level has consumed a run holding a tombstone
C19_Witness ==
    /\ last_write.ok
    /\ \E i \in DOMAIN last_write.merges :
          LET m == last_write.merges[i]
          IN  /\ m.from + 1 = Len(levels)
              /\ \E j \in DOMAIN m.inputs : \E k \in 1..max_key :
                    HasTombstone(m.inputs[j], k)

====
